---- MODULE Spec2Model ----
(***************************************************************************)
(* DevMate (AI-Code-Reviewer): the findings pipeline.                      *)
(*   llm_agent.py  reason_over_findings / _chat   (SpecReason, SpecChat)    *)
(*   app.py        extract_score, index    (SpecScore, SpecIndex[Fault])   *)
(*   reporter.py   generate_pdf_report, _render_pdf                        *)
(*                            (SpecPdf, SpecRender, SpecWrite, SpecRuns)   *)
(*   analyzer.py   analyze_repository                  (SpecAnalyze)       *)
(***************************************************************************)
EXTENDS Integers, Sequences, FiniteSets, TLC

VARIABLES
    \* ---- llm_agent.py: one reason_over_findings pass ----
    USE_LLM,        \* module flag: bool(GROQ_API_KEY)
    analysis,       \* the input: pylint (issues per file), bandit, radon (items per file)
    max_llm_calls,  \* the budget argument N
    llm_budget,     \* the local counter
    suggestions,    \* the output list
    rpc,            \* position: "pylint" | "bandit" | "radon" | "done"
    fi,             \* index of the current file (pylint / radon loops)
    ii,             \* index of the current issue or item in that file
    chatCalls,      \* findings for which _chat(prompt) was called
    lastChat,       \* what the latest _chat call did
    \* ---- llm_agent.py: one _chat call on its own ----
    chatOuts,       \* what each attempt meets at the endpoint
    chatRet,        \* res "pending", then what the call did
    \* ---- app.py: one extract_score call on its own ----
    scoreIn,        \* the argument: a string, a list of dicts or a dict
    scoreOut,       \* res "pending", then "returned" (with the value) or "raised"
    \* ---- reporter.py: one generate_pdf_report call ----
    installed,      \* the candidate fonts present under C:\Windows\Fonts
    gstate,         \* NoAttempt | UnicodeAttempt | FallbackAttempt | Success | Fatal
    gpos,           \* the statement the current attempt is at
    gtrace,         \* the states the call has been in, in order
    font_path,      \* find_font()'s result
    out_stamp,      \* int(time.time()) of line 151
    pdf,            \* the FPDF object: which one it is, whether it holds pages
    renders,        \* the modes _render_pdf was called with, in order
    files,          \* the report files written (out_path of each pdf.output)
    gret,           \* what the call returned, or that it raised
    \* ---- app.py: one POST request to the index handler ----
    ipc,            \* the statement the handler is at
    result_text,    \* the "suggestion" strings of analyze_repo_with_agents' list
    score,          \* extract_score(result_text), in hundredths
    db,             \* the committed Analysis rows, in insertion order
    flashed,        \* the category of the flashed message
    \* ---- reporter.py: the section loop of one _render_pdf call ----
    rsuggestions,   \* the "type" of each Suggestion passed in (the key may be missing)
    rnext,          \* index of the next Suggestion of the loop
    headers,        \* the header chosen for each Suggestion so far
    rstate,         \* "rendering" | "returned" | "raised"
    \* ---- analyzer.py: the three passes of one analyze_repository call ----
    apc,            \* "pylint" | "bandit" | "radon" | "done" | "raised"
    py_files,       \* number of .py files list_py_files yields
    runs,           \* what each run_cmd call met, in order
    pylint_findings,
    bandit_findings,
    radon_findings,
    \* ---- reporter.py: the strings one _render_pdf call writes ----
    unicode_mode,   \* the mode argument
    wpc,            \* the statement the call is at
    sections_left,  \* Suggestions the loop of line 78 has still to take
    codes_left,     \* code blocks of the current Suggestion still to write
    code_idx,       \* idx of line 112
    wrote,          \* the strings the latest step passed to pdf.cell / pdf.multi_cell
    \* ---- the requests of one server process, over time ----
    clock,          \* int(time.time()), in seconds
    disk,           \* the report files under static/reports: path and the run that wrote it
    reports,        \* per successful generate_pdf_report call: the run and the path returned
    workdirs        \* the directories make_workdir returned, in order

reasonVars == <<USE_LLM, analysis, max_llm_calls, llm_budget, suggestions,
                rpc, fi, ii, chatCalls, lastChat>>

chatVars == <<chatOuts, chatRet>>

scoreVars == <<scoreIn, scoreOut>>

pdfVars == <<installed, gstate, gpos, gtrace, font_path, out_stamp, pdf, renders,
             files, gret>>

indexVars == <<ipc, result_text, score, db, flashed>>

renderVars == <<rsuggestions, rnext, headers, rstate>>

analyzeVars == <<apc, py_files, runs, pylint_findings, bandit_findings, radon_findings>>

writeVars == <<unicode_mode, wpc, sections_left, codes_left, code_idx, wrote>>

runsVars == <<clock, disk, reports, workdirs>>

vars == <<reasonVars, chatVars, scoreVars, pdfVars, indexVars, renderVars, analyzeVars,
          writeVars, runsVars>>

\* What the steps of one component leave alone.
notReason == <<chatVars, scoreVars, pdfVars, indexVars, renderVars, analyzeVars,
    writeVars, runsVars>>
notChat == <<reasonVars, scoreVars, pdfVars, indexVars, renderVars, analyzeVars,
    writeVars, runsVars>>
notScore == <<reasonVars, chatVars, pdfVars, indexVars, renderVars, analyzeVars,
    writeVars, runsVars>>
notPdf == <<reasonVars, chatVars, scoreVars, indexVars, renderVars, analyzeVars,
    writeVars, runsVars>>
notIndex == <<reasonVars, chatVars, scoreVars, pdfVars, renderVars, analyzeVars,
    writeVars, runsVars>>
notRender == <<reasonVars, chatVars, scoreVars, pdfVars, indexVars, analyzeVars,
    writeVars, runsVars>>
notAnalyze == <<reasonVars, chatVars, scoreVars, pdfVars, indexVars, renderVars,
    writeVars, runsVars>>
notWrite == <<reasonVars, chatVars, scoreVars, pdfVars, indexVars, renderVars,
    analyzeVars, runsVars>>
notRuns == <<reasonVars, chatVars, scoreVars, pdfVars, indexVars, renderVars,
    analyzeVars, writeVars>>

Min(a, b) == IF a <= b THEN a ELSE b

RECURSIVE SumSeq(_)
SumSeq(s) == IF s = <<>> THEN 0 ELSE Head(s) + SumSeq(Tail(s))

(***************************************************************************)
(* Bounds of the model.                                                    *)
(***************************************************************************)
MaxBudget == 2       \* max_llm_calls ranges over 0..MaxBudget
MaxFindings == 4     \* total findings of one analysis
MaxFiles == 2        \* pylint entries
MaxTokens == 2       \* whitespace-separated tokens of a drawn text
MaxTime == 11        \* int(time.time()) ranges over 0..MaxTime
MaxTypeLen == 2      \* characters of a drawn "type" string
MaxSuggestions == 2  \* Suggestions passed to one _render_pdf call
MaxPyFiles == 2      \* .py files of the checkout
MaxItems == 2        \* entries of a tool's JSON output
MaxChars == 2        \* characters of a drawn text field of the report
MaxCodes == 2        \* code blocks of one Suggestion's body
MaxRuns == 3         \* generate_pdf_report calls, and make_workdir calls, of one process

(***************************************************************************)
(* llm_agent.py: _chat                                                     *)
(***************************************************************************)
Retries == 3
InitialDelay == 2
DelayCeiling == 16

\* What the completion endpoint does on one attempt: it answers, or raises an
\* error whose text holds "rate", holds "quota", or holds neither.
Outcomes == {"ok", "rate", "quota", "other"}

\* line 48: "rate" in msg or "quota" in msg
IsRateLimited(o) == o \in {"rate", "quota"}

NextDelayNoDoubling(delay) == Min(delay, DelayCeiling)

\* line 50: delay = min(delay * 2, 16)
NextDelay(delay) == Min(delay * 2, DelayCeiling)

\* ChatLoop with the raise of line 52 dropped: every error is slept on and retried.
RECURSIVE ChatLoopRetriesAnyError(_, _, _, _)
ChatLoopRetriesAnyError(outs, i, delay, sleeps) ==
    IF i > Retries
    THEN [res |-> "LLM_RATE_LIMIT", attempts |-> i - 1, sleeps |-> sleeps]
    ELSE IF outs[i] = "ok"
    THEN [res |-> "completion", attempts |-> i, sleeps |-> sleeps]
    ELSE ChatLoopRetriesAnyError(outs, i + 1, NextDelay(delay), Append(sleeps, delay))

\* lines 32-53: the for loop over range(retries), from attempt i on.
RECURSIVE ChatLoop(_, _, _, _)
ChatLoop(outs, i, delay, sleeps) ==
    IF i > Retries
    THEN [res |-> "LLM_RATE_LIMIT", attempts |-> i - 1, sleeps |-> sleeps]
    ELSE IF outs[i] = "ok"
    THEN [res |-> "completion", attempts |-> i, sleeps |-> sleeps]
    ELSE IF IsRateLimited(outs[i])
    THEN ChatLoop(outs, i + 1, NextDelay(delay), Append(sleeps, delay))
    ELSE [res |-> "error", attempts |-> i, sleeps |-> sleeps]

\* lines 28-53. outs[i] is what attempt i meets, should it be made.
Chat(outs) ==
    IF ~USE_LLM
    THEN [res |-> "LLM_DISABLED", attempts |-> 0, sleeps |-> <<>>]
    ELSE ChatLoop(outs, 1, InitialDelay, <<>>)

OutcomeSeqs == [1..Retries -> Outcomes]

\* The attempts after the one that ends the call are never made: one
\* representative ("ok") stands for what they would have met.
DecidingSeqs ==
    { o \in OutcomeSeqs :
        \A i \in 1..Retries :
            (\E j \in 1..(i - 1) : ~IsRateLimited(o[j])) => o[i] = "ok" }

\* Line 48 treats "rate" and "quota" alike and the pass keeps neither word, so
\* within a pass "rate" stands for both.
PassSeqs == { o \in DecidingSeqs : \A i \in 1..Retries : o[i] # "quota" }

NoChat == [called |-> FALSE]

\* lines 46-48: how the except clause of _chat sees what the three attempts would
\* meet; with USE_LLM false line 30 raises before any attempt (client is None).
Faced(outs) ==
    IF USE_LLM
    THEN [i \in 1..Retries |-> IF IsRateLimited(outs[i]) THEN "limited" ELSE outs[i]]
    ELSE <<>>

\* What one _chat call of the pass met and did.
ChatRecord(outs, r) ==
    [called |-> TRUE, res |-> r.res, attempts |-> r.attempts, sleeps |-> r.sleeps,
     faced |-> Faced(outs)]

(***************************************************************************)
(* llm_agent.py: reason_over_findings                                      *)
(***************************************************************************)
BanditCap == 3       \* line 80: [:3]
RadonFileCap == 3    \* line 91: [:3]
RadonItemCap == 2    \* line 92: [:2]

\* line 69: entry.get("issues", [])[:max_llm_calls], for max_llm_calls >= 0
PylintCap(n) == Min(n, max_llm_calls)

\* The radon mappings of the model hold up to one file more than line 91 keeps.
MaxRadonFiles == RadonFileCap + 1

\* The sequences of at most k counts that sum to at most t.
RECURSIVE CountSeqs(_, _)
CountSeqs(k, t) ==
    IF k = 0 THEN {<<>>}
    ELSE {<<>>} \cup UNION { { <<x>> \o s : s \in CountSeqs(k - 1, t - x) } : x \in 0..t }

\* The inputs: issues per pylint entry, bandit results, items per radon file.
Analyses ==
    UNION { UNION { { [pylint |-> p, bandit |-> b, radon |-> r] :
                        r \in CountSeqs(MaxRadonFiles, MaxFindings - SumSeq(p) - b) } :
                    b \in 0..(MaxFindings - SumSeq(p)) } :
            p \in CountSeqs(MaxFiles, MaxFindings) }

ReasonIdle ==
    /\ analysis = [pylint |-> <<>>, bandit |-> 0, radon |-> <<>>]
    /\ max_llm_calls = 0
    /\ llm_budget = 0
    /\ suggestions = <<>>
    /\ rpc = "idle"
    /\ fi = 1
    /\ ii = 1
    /\ chatCalls = 0
    /\ lastChat = NoChat

ChatIdle ==
    /\ chatOuts = <<>>
    /\ chatRet = [res |-> "idle", attempts |-> 0, sleeps |-> <<>>]

NoPath == [dir |-> <<>>, name |-> <<>>]
NoPdf == [id |-> 0, pages |-> FALSE]

PdfIdle ==
    /\ installed = {}
    /\ gstate = "idle"
    /\ gpos = "-"
    /\ gtrace = <<>>
    /\ font_path = "None"
    /\ out_stamp = 0
    /\ pdf = NoPdf
    /\ renders = <<>>
    /\ files = {}
    /\ gret = [res |-> "none", path |-> NoPath]

RenderIdle ==
    /\ rsuggestions = <<>>
    /\ rnext = 1
    /\ headers = <<>>
    /\ rstate = "idle"

AnalyzeIdle ==
    /\ apc = "idle"
    /\ py_files = 0
    /\ runs = <<>>
    /\ pylint_findings = <<>>
    /\ bandit_findings = [results |-> 0]
    /\ radon_findings = [files |-> 0]

WriteIdle ==
    /\ unicode_mode = FALSE
    /\ wpc = "idle"
    /\ sections_left = 0
    /\ codes_left = 0
    /\ code_idx = 0
    /\ wrote = <<>>

RunsIdle ==
    /\ clock = 0
    /\ disk = {}
    /\ reports = <<>>
    /\ workdirs = <<>>

IndexIdle ==
    /\ ipc = "idle"
    /\ result_text = <<>>
    /\ score = 0
    /\ db = <<>>
    /\ flashed = "none"

ScoreIdle ==
    /\ scoreIn = [kind |-> "none"]
    /\ scoreOut = [res |-> "idle"]

InitReason ==
    /\ ChatIdle
    /\ ScoreIdle
    /\ PdfIdle
    /\ IndexIdle
    /\ RenderIdle
    /\ AnalyzeIdle
    /\ WriteIdle
    /\ RunsIdle
    /\ USE_LLM \in BOOLEAN
    /\ analysis \in Analyses
    /\ max_llm_calls \in 0..MaxBudget
    /\ llm_budget = max_llm_calls
    /\ suggestions = <<>>
    /\ rpc = "pylint"
    /\ fi = 1
    /\ ii = 1
    /\ chatCalls = 0
    /\ lastChat = NoChat

\* ProcessFinding with the append of line 77 moved into the try block: a finding
\* whose call raises gets no Suggestion.
ProcessFindingDropOnError(type, f, i, outs) ==
    IF llm_budget > 0
    THEN LET r == Chat(outs) IN
         /\ chatCalls' = chatCalls + 1
         /\ lastChat' = ChatRecord(outs, r)
         /\ IF r.res = "completion"
            THEN /\ llm_budget' = llm_budget - 1
                 /\ suggestions' = Append(suggestions,
                        [type |-> type, file |-> f, idx |-> i, src |-> "llm"])
            ELSE /\ llm_budget' = llm_budget
                 /\ suggestions' = suggestions
    ELSE /\ llm_budget' = llm_budget - 1
         /\ suggestions' = Append(suggestions,
                [type |-> type, file |-> f, idx |-> i, src |-> "hint"])
         /\ UNCHANGED <<chatCalls, lastChat>>

\* lines 72-77 (84-88, 96-100): the try/except around one finding, and the append.
\* The decrement of line 74 is skipped when _chat raises.
ProcessFinding(type, f, i, outs) ==
    IF llm_budget > 0
    THEN LET r == Chat(outs) IN
         /\ chatCalls' = chatCalls + 1
         /\ lastChat' = ChatRecord(outs, r)
         /\ IF r.res = "completion"
            THEN /\ llm_budget' = llm_budget - 1
                 /\ suggestions' = Append(suggestions,
                        [type |-> type, file |-> f, idx |-> i, src |-> "llm"])
            ELSE /\ llm_budget' = llm_budget
                 /\ suggestions' = Append(suggestions,
                        [type |-> type, file |-> f, idx |-> i, src |-> "hint"])
    ELSE /\ llm_budget' = llm_budget - 1
         /\ suggestions' = Append(suggestions,
                [type |-> type, file |-> f, idx |-> i, src |-> "hint"])
         /\ UNCHANGED <<chatCalls, lastChat>>

\* lines 67-77: one iteration of the inner pylint loop
ReasonPylint ==
    /\ rpc = "pylint"
    /\ fi <= Len(analysis.pylint)
    /\ ii <= PylintCap(analysis.pylint[fi])
    /\ \E outs \in PassSeqs : ProcessFinding("pylint", fi, ii, outs)
    /\ ii' = ii + 1
    /\ UNCHANGED <<USE_LLM, analysis, max_llm_calls, rpc, fi>>
    /\ UNCHANGED notReason

\* line 67: the outer pylint loop takes the next entry
PylintNextFile ==
    /\ rpc = "pylint"
    /\ fi <= Len(analysis.pylint)
    /\ ii > PylintCap(analysis.pylint[fi])
    /\ fi' = fi + 1
    /\ ii' = 1
    /\ UNCHANGED <<USE_LLM, analysis, max_llm_calls, llm_budget, suggestions,
                   rpc, chatCalls, lastChat>>
    /\ UNCHANGED notReason

\* line 80: the pylint loop is over
PylintDone ==
    /\ rpc = "pylint"
    /\ fi > Len(analysis.pylint)
    /\ rpc' = "bandit"
    /\ fi' = 1
    /\ ii' = 1
    /\ UNCHANGED <<USE_LLM, analysis, max_llm_calls, llm_budget, suggestions,
                   chatCalls, lastChat>>
    /\ UNCHANGED notReason

\* lines 80-88: one iteration of the bandit loop
ReasonBandit ==
    /\ rpc = "bandit"
    /\ ii <= Min(analysis.bandit, BanditCap)
    /\ \E outs \in PassSeqs : ProcessFinding("bandit", 0, ii, outs)
    /\ ii' = ii + 1
    /\ UNCHANGED <<USE_LLM, analysis, max_llm_calls, rpc, fi>>
    /\ UNCHANGED notReason

\* line 91: the bandit loop is over
BanditDone ==
    /\ rpc = "bandit"
    /\ ii > Min(analysis.bandit, BanditCap)
    /\ rpc' = "radon"
    /\ fi' = 1
    /\ ii' = 1
    /\ UNCHANGED <<USE_LLM, analysis, max_llm_calls, llm_budget, suggestions,
                   chatCalls, lastChat>>
    /\ UNCHANGED notReason

\* lines 91-100: one iteration of the inner radon loop
ReasonRadon ==
    /\ rpc = "radon"
    /\ fi <= Min(Len(analysis.radon), RadonFileCap)
    /\ ii <= Min(analysis.radon[fi], RadonItemCap)
    /\ \E outs \in PassSeqs : ProcessFinding("radon", fi, ii, outs)
    /\ ii' = ii + 1
    /\ UNCHANGED <<USE_LLM, analysis, max_llm_calls, rpc, fi>>
    /\ UNCHANGED notReason

\* line 91: the outer radon loop takes the next file
RadonNextFile ==
    /\ rpc = "radon"
    /\ fi <= Min(Len(analysis.radon), RadonFileCap)
    /\ ii > Min(analysis.radon[fi], RadonItemCap)
    /\ fi' = fi + 1
    /\ ii' = 1
    /\ UNCHANGED <<USE_LLM, analysis, max_llm_calls, llm_budget, suggestions,
                   rpc, chatCalls, lastChat>>
    /\ UNCHANGED notReason

\* line 102: return suggestions
ReasonReturn ==
    /\ rpc = "radon"
    /\ fi > Min(Len(analysis.radon), RadonFileCap)
    /\ rpc' = "done"
    /\ UNCHANGED <<USE_LLM, analysis, max_llm_calls, llm_budget, suggestions,
                   fi, ii, chatCalls, lastChat>>
    /\ UNCHANGED notReason

NextReason ==
    \/ ReasonPylint
    \/ PylintNextFile
    \/ PylintDone
    \/ ReasonBandit
    \/ BanditDone
    \/ ReasonRadon
    \/ RadonNextFile
    \/ ReasonReturn

SpecReason == InitReason /\ [][NextReason]_vars

(***************************************************************************)
(* One _chat call: the endpoint's behaviour is drawn, the call is made.    *)
(***************************************************************************)
InitChat ==
    /\ ReasonIdle
    /\ ScoreIdle
    /\ PdfIdle
    /\ IndexIdle
    /\ RenderIdle
    /\ AnalyzeIdle
    /\ WriteIdle
    /\ RunsIdle
    /\ USE_LLM \in BOOLEAN
    /\ chatOuts \in OutcomeSeqs
    /\ chatRet = [res |-> "pending", attempts |-> 0, sleeps |-> <<>>]

\* lines 28-53
ChatCall ==
    /\ chatRet.res = "pending"
    /\ chatRet' = Chat(chatOuts)
    /\ UNCHANGED chatOuts
    /\ UNCHANGED notChat

NextChat == ChatCall

SpecChat == InitChat /\ [][NextChat]_vars

(***************************************************************************)
(* app.py: extract_score.  A string is a sequence of tokens (what split()  *)
(* returns), a token a sequence of characters.  Scores are counted in      *)
(* hundredths: round(val, 2) = 8.5 is 850.                                 *)
(***************************************************************************)
Digits == {"0", "1", "2", "3", "4", "5", "6", "7", "8", "9"}

DigitVal(c) ==
    CASE c = "0" -> 0 [] c = "1" -> 1 [] c = "2" -> 2 [] c = "3" -> 3 [] c = "4" -> 4
      [] c = "5" -> 5 [] c = "6" -> 6 [] c = "7" -> 7 [] c = "8" -> 8 [] c = "9" -> 9

RECURSIVE Pow10(_)
Pow10(n) == IF n = 0 THEN 1 ELSE 10 * Pow10(n - 1)

\* line 133: "/10" in token
ContainsSlash10(tok) ==
    \E i \in 1..(Len(tok) - 2) : tok[i] = "/" /\ tok[i + 1] = "1" /\ tok[i + 2] = "0"

\* line 133: token.replace(".", "", 1)
RECURSIVE ReplaceFirstDot(_)
ReplaceFirstDot(tok) ==
    IF tok = <<>> THEN <<>>
    ELSE IF Head(tok) = "." THEN Tail(tok)
    ELSE <<Head(tok)>> \o ReplaceFirstDot(Tail(tok))

\* str.isdigit on the characters of the model
IsDigit(tok) == tok # <<>> /\ \A i \in 1..Len(tok) : tok[i] \in Digits

RECURSIVE LStrip(_, _)
LStrip(tok, chars) ==
    IF tok # <<>> /\ Head(tok) \in chars THEN LStrip(Tail(tok), chars) ELSE tok

RECURSIVE RStrip(_, _)
RStrip(tok, chars) ==
    IF tok # <<>> /\ tok[Len(tok)] \in chars
    THEN RStrip(SubSeq(tok, 1, Len(tok) - 1), chars) ELSE tok

\* line 135: token.strip("/10") strips every leading and trailing character
\* that is one of '/', '1', '0'.
StripSlash10(tok) == RStrip(LStrip(tok, {"/", "1", "0"}), {"/", "1", "0"})

\* float(s) accepts, over the characters of the model: digits with at most one
\* '.', and at least one digit.  Anything else raises ValueError.
IsFloat(s) ==
    /\ \A i \in 1..Len(s) : s[i] \in Digits \cup {"."}
    /\ Cardinality({i \in 1..Len(s) : s[i] = "."}) <= 1
    /\ \E i \in 1..Len(s) : s[i] \in Digits

RECURSIVE DigitsValue(_)
DigitsValue(s) ==
    IF s = <<>> THEN 0 ELSE 10 * DigitsValue(SubSeq(s, 1, Len(s) - 1)) + DigitVal(s[Len(s)])

\* float(s) as mant / 10^ndec
ParseFloat(s) ==
    LET dots == {i \in 1..Len(s) : s[i] = "."}
        ndec == IF dots = {} THEN 0 ELSE Len(s) - (CHOOSE i \in dots : TRUE)
    IN  [mant |-> DigitsValue(ReplaceFirstDot(s)), ndec |-> ndec]

\* line 136: 0 < val <= 10
InRange(v) == 0 < v.mant /\ v.mant <= 10 * Pow10(v.ndec)

\* line 137: round(val, 2), in hundredths (a tie, which no token of the model
\* has, taken to the even neighbour)
Round2(v) ==
    IF v.ndec <= 2 THEN v.mant * Pow10(2 - v.ndec)
    ELSE LET p == Pow10(v.ndec - 2)
             q == v.mant \div p
             r == v.mant % p
         IN  IF 2 * r > p THEN q + 1
             ELSE IF 2 * r < p THEN q
             ELSE IF q % 2 = 0 THEN q ELSE q + 1

DefaultScore == 750

\* lines 132-140: the scan over text.split(), from token i on
RECURSIVE ScanTokens(_, _)
ScanTokens(toks, i) ==
    IF i > Len(toks) THEN DefaultScore
    ELSE LET token == toks[i]
             s == StripSlash10(token)
         IN  IF (ContainsSlash10(token) \/ IsDigit(ReplaceFirstDot(token)))
                /\ IsFloat(s) /\ InRange(ParseFloat(s))
             THEN Round2(ParseFloat(s))
             ELSE ScanTokens(toks, i + 1)

RECURSIVE JoinParts(_)
JoinParts(parts) ==
    IF parts = <<>> THEN <<>> ELSE Head(parts).toks \o JoinParts(Tail(parts))

\* str(text) of a dict whose "suggestion" and "result" are empty: no token of
\* the repr is a numeral or holds "/10".
ReprTokens == << <<"{", "'", "s", "'", ":">>, <<"'", "'", "}">> >>

\* lines 120-140.  A string is [kind "str", parts <<s>>]; a list of dicts is
\* [kind "list", parts: the "suggestion" of each]; a dict is [kind "dict",
\* parts <<its "suggestion", its "result">>].  A part is a string (isStr, toks)
\* or a truthy value that is no string (an int).
ExtractScore(text) ==
    CASE text.kind = "str" ->
            [res |-> "returned", value |-> ScanTokens(text.parts[1].toks, 1)]
      [] text.kind = "list" ->
            \* line 123: " ".join(...) raises TypeError on an item that is no str
            IF \E k \in 1..Len(text.parts) : ~text.parts[k].isStr
            THEN [res |-> "raised", value |-> 0]
            ELSE [res |-> "returned", value |-> ScanTokens(JoinParts(text.parts), 1)]
      [] text.kind = "dict" ->
            \* line 128: suggestion or result or str(text); line 132: text.split()
            LET chosen == IF text.parts[1] # [isStr |-> TRUE, toks |-> <<>>]
                          THEN text.parts[1]
                          ELSE IF text.parts[2] # [isStr |-> TRUE, toks |-> <<>>]
                          THEN text.parts[2]
                          ELSE [isStr |-> TRUE, toks |-> ReprTokens]
            IN  IF ~chosen.isStr
                THEN [res |-> "raised", value |-> 0]
                ELSE [res |-> "returned", value |-> ScanTokens(chosen.toks, 1)]

\* The tokens the drawn texts are made of.
TokenSet ==
    { <<"r", "a", "t", "e">>,
      <<"1", "2", "/", "1", "0">>,
      <<"6", ".", "0">>,
      <<"8", ".", "5", "/", "1", "0">>,
      <<"0", ".", "0", "0", "2">>,
      <<"1", "0">>,
      <<"7">>,
      <<"1", ".", "5">>,
      <<"1", "1">>,
      <<"0">>,
      <<"/", "1", "0">>,
      <<"9", "/", "1", "0">> }

TextsUpTo(n) == UNION { [1..k -> TokenSet] : k \in 0..n }

\* The two texts spelled out in the description of the scan.
ExampleRating ==
    << <<"r", "a", "t", "i", "n", "g">>, <<"1", "2", "/", "1", "0">>, <<"b", "u", "t">>,
       <<"a", "l", "s", "o">>, <<"6", ".", "0">> >>

ExampleOverall ==
    << <<"O", "v", "e", "r", "a", "l", "l">>, <<"s", "c", "o", "r", "e", ":">>,
       <<"8", ".", "5", "/", "1", "0">>, <<"d", "o", "n", "e">> >>

StrPart(t) == [isStr |-> TRUE, toks |-> t]
IntPart == [isStr |-> FALSE, toks |-> <<>>]

ShortParts == {StrPart(t) : t \in TextsUpTo(1)} \cup {IntPart}

ScoreInputs ==
    {[kind |-> "str", parts |-> <<StrPart(t)>>] :
        t \in TextsUpTo(MaxTokens) \cup {ExampleRating, ExampleOverall}}
    \cup {[kind |-> "list", parts |-> ps] :
            ps \in UNION { [1..k -> ShortParts] : k \in 0..2 }}
    \cup {[kind |-> "dict", parts |-> <<a, b>>] : a \in ShortParts, b \in ShortParts}

InitScore ==
    /\ ReasonIdle
    /\ ChatIdle
    /\ PdfIdle
    /\ IndexIdle
    /\ RenderIdle
    /\ AnalyzeIdle
    /\ WriteIdle
    /\ RunsIdle
    /\ USE_LLM = TRUE
    /\ scoreIn \in ScoreInputs
    /\ scoreOut = [res |-> "pending"]

\* lines 120-140
ScoreCall ==
    /\ scoreOut.res = "pending"
    /\ scoreOut' = ExtractScore(scoreIn)
    /\ UNCHANGED <<scoreIn, notScore>>

NextScore == ScoreCall

SpecScore == InitScore /\ [][NextScore]_vars

(***************************************************************************)
(* reporter.py: find_font and generate_pdf_report.  A path is a directory  *)
(* (its components) and a file name (its characters).                      *)
(***************************************************************************)
\* lines 8-11: the candidates, in the order find_font tries them
FontCandidates ==
    <<"arial.ttf", "arialuni.ttf", "segoeui.ttf", "calibri.ttf",
      "cambria.ttf", "consola.ttf", "times.ttf", "cour.ttf">>

\* lines 12-18
RECURSIVE FindFontFrom(_, _)
FindFontFrom(i, present) ==
    IF i > Len(FontCandidates) THEN "None"
    ELSE IF FontCandidates[i] \in present THEN FontCandidates[i]
    ELSE FindFontFrom(i + 1, present)

find_font == FindFontFrom(1, installed)

DigitChar(d) ==
    CASE d = 0 -> "0" [] d = 1 -> "1" [] d = 2 -> "2" [] d = 3 -> "3" [] d = 4 -> "4"
      [] d = 5 -> "5" [] d = 6 -> "6" [] d = 7 -> "7" [] d = 8 -> "8" [] d = 9 -> "9"

\* str(n) of an int n >= 0, as the f-string of line 151 formats it
RECURSIVE FormatInt(_)
FormatInt(n) ==
    IF n < 10 THEN <<DigitChar(n)>> ELSE FormatInt(n \div 10) \o <<DigitChar(n % 10)>>

ReportPrefix == <<"d", "e", "v", "m", "a", "t", "e", "_", "r", "e", "p", "o", "r", "t", "_">>
PdfSuffix == <<".", "p", "d", "f">>

\* lines 149-151: os.path.join("static", "reports", f"devmate_report_{t}.pdf")
OutPath(t) ==
    [dir |-> <<"static", "reports">>, name |-> ReportPrefix \o FormatInt(t) \o PdfSuffix]

\* lines 179 and 193: f"reports/{os.path.basename(out_path)}"
RelativePath(out_path) == [dir |-> <<"reports">>, name |-> out_path.name]

SamePdfDocument(old) == old

\* lines 167 and 183: pdf = FPDF()
FreshPdf(old) == [id |-> old.id + 1, pages |-> FALSE]

\* line 60 (and 132): _render_pdf adds pages to the document it is given
Rendered(doc) == [doc EXCEPT !.pages = TRUE]

\* lines 147-167: up to the try block
GenStart ==
    /\ gstate = "NoAttempt"
    /\ ipc \in {"idle", "in_pdf"}
    /\ \E t \in 0..MaxTime : out_stamp' = t
    /\ font_path' = find_font
    /\ pdf' = FreshPdf(pdf)
    /\ gstate' = "UnicodeAttempt"
    /\ gtrace' = Append(gtrace, "UnicodeAttempt")
    /\ gpos' = IF find_font = "None" THEN "raise" ELSE "add_font"
    /\ UNCHANGED <<installed, renders, files, gret>>

\* lines 181-186: the except clause of the Unicode attempt
EnterFallback ==
    /\ pdf' = FreshPdf(pdf)
    /\ gstate' = "FallbackAttempt"
    /\ gtrace' = Append(gtrace, "FallbackAttempt")
    /\ gpos' = "render"

\* lines 174-175: no font, raise RuntimeError into the except clause
UnicodeNoFont ==
    /\ gstate = "UnicodeAttempt"
    /\ gpos = "raise"
    /\ EnterFallback
    /\ UNCHANGED <<installed, font_path, out_stamp, renders, files, gret>>

\* lines 171-172: the two add_font calls succeed, or one raises
UnicodeAddFont ==
    /\ gstate = "UnicodeAttempt"
    /\ gpos = "add_font"
    /\ \/ /\ gpos' = "render"
          /\ UNCHANGED <<gstate, gtrace, pdf>>
       \/ EnterFallback
    /\ UNCHANGED <<installed, font_path, out_stamp, renders, files, gret>>

\* line 173: _render_pdf(..., unicode_mode=True) returns or raises
UnicodeRender ==
    /\ gstate = "UnicodeAttempt"
    /\ gpos = "render"
    /\ renders' = Append(renders, [mode |-> "unicode", doc |-> pdf])
    /\ \/ /\ gpos' = "output"
          /\ pdf' = Rendered(pdf)
          /\ UNCHANGED <<gstate, gtrace>>
       \/ EnterFallback
    /\ UNCHANGED <<installed, font_path, out_stamp, files, gret>>

\* lines 177-179: pdf.output(out_path) writes and the call returns, or raises
UnicodeOutput ==
    /\ gstate = "UnicodeAttempt"
    /\ gpos = "output"
    /\ \/ /\ files' = files \cup {OutPath(out_stamp)}
          /\ gstate' = "Success"
          /\ gtrace' = Append(gtrace, "Success")
          /\ gpos' = "-"
          /\ gret' = [res |-> "returned", path |-> RelativePath(OutPath(out_stamp))]
          /\ UNCHANGED pdf
       \/ /\ EnterFallback
          /\ UNCHANGED <<files, gret>>
    /\ UNCHANGED <<installed, font_path, out_stamp, renders>>

\* lines 189-191: the fallback failed, raise fallback_error
FallbackFails ==
    /\ gstate' = "Fatal"
    /\ gtrace' = Append(gtrace, "Fatal")
    /\ gpos' = "-"
    /\ gret' = [res |-> "raised", path |-> NoPath]

\* lines 185-186: _render_pdf(..., unicode_mode=False) returns or raises
FallbackRender ==
    /\ gstate = "FallbackAttempt"
    /\ gpos = "render"
    /\ renders' = Append(renders, [mode |-> "ascii", doc |-> pdf])
    /\ \/ /\ gpos' = "output"
          /\ pdf' = Rendered(pdf)
          /\ UNCHANGED <<gstate, gtrace, gret>>
       \/ /\ FallbackFails
          /\ UNCHANGED pdf
    /\ UNCHANGED <<installed, font_path, out_stamp, files>>

\* lines 187-193: pdf.output(out_path) writes and the call returns, or raises
FallbackOutput ==
    /\ gstate = "FallbackAttempt"
    /\ gpos = "output"
    /\ \/ /\ files' = files \cup {OutPath(out_stamp)}
          /\ gstate' = "Success"
          /\ gtrace' = Append(gtrace, "Success")
          /\ gpos' = "-"
          /\ gret' = [res |-> "returned", path |-> RelativePath(OutPath(out_stamp))]
       \/ /\ FallbackFails
          /\ UNCHANGED files
    /\ UNCHANGED <<installed, font_path, out_stamp, renders, pdf>>

\* The machines of the model have no font of the list, or one of them.
FontSetups == {{}} \cup { {FontCandidates[i]} : i \in 1..Len(FontCandidates) }

PdfReady ==
    /\ installed \in FontSetups
    /\ gstate = "NoAttempt"
    /\ gpos = "-"
    /\ gtrace = <<"NoAttempt">>
    /\ font_path = "None"
    /\ out_stamp = 0
    /\ pdf = NoPdf
    /\ renders = <<>>
    /\ files = {}
    /\ gret = [res |-> "none", path |-> NoPath]

InitPdf ==
    /\ ReasonIdle
    /\ ChatIdle
    /\ ScoreIdle
    /\ IndexIdle
    /\ RenderIdle
    /\ AnalyzeIdle
    /\ WriteIdle
    /\ RunsIdle
    /\ USE_LLM = TRUE
    /\ PdfReady

NextPdf ==
    \/ GenStart /\ UNCHANGED notPdf
    \/ UnicodeNoFont /\ UNCHANGED notPdf
    \/ UnicodeAddFont /\ UNCHANGED notPdf
    \/ UnicodeRender /\ UNCHANGED notPdf
    \/ UnicodeOutput /\ UNCHANGED notPdf
    \/ FallbackRender /\ UNCHANGED notPdf
    \/ FallbackOutput /\ UNCHANGED notPdf

SpecPdf == InitPdf /\ [][NextPdf]_vars

(***************************************************************************)
(* app.py: the index handler, one POST request.  generate_pdf_report runs  *)
(* as the state machine above while the handler is at line 78.             *)
(***************************************************************************)
\* The pdf_path column holds a sentinel string or a path.
Generating == [kind |-> "text", text |-> "Generating...", path |-> NoPath]
ErrorGeneratingPdf == [kind |-> "text", text |-> "Error generating PDF", path |-> NoPath]
PathValue(p) == [kind |-> "path", text |-> "", path |-> p]

\* lines 80-81: a leading "static/" is removed
StripStatic(p) ==
    IF p.dir # <<>> /\ Head(p.dir) = "static" THEN [p EXCEPT !.dir = Tail(p.dir)] ELSE p

\* agents.py lines 156-160: a list of three dicts whose "suggestion" is a
\* string; the model draws at most one token over the three.
ResultTexts ==
    { ps \in [1..3 -> {StrPart(t) : t \in TextsUpTo(1)}] :
        Len(ps[1].toks) + Len(ps[2].toks) + Len(ps[3].toks) <= 1 }

\* lines 43-48: the POST arrives; an empty repo_url is turned away
IndexPost ==
    /\ ipc = "idle"
    /\ gstate = "NoAttempt"
    /\ \/ /\ ipc' = "warned"
          /\ flashed' = "warning"
       \/ /\ ipc' = "analyze"
          /\ UNCHANGED flashed
    /\ UNCHANGED <<result_text, score, db>>

\* line 54: analyze_repo_with_agents returns its list
IndexAnalyze ==
    /\ ipc = "analyze"
    /\ result_text' \in ResultTexts
    /\ ipc' = "score"
    /\ UNCHANGED <<score, db, flashed>>

\* lines 54, 93-98: analyze_repo_with_agents raises (the clone fails, ...)
IndexAnalyzeRaises ==
    /\ ipc = "analyze"
    /\ ipc' = "failed"
    /\ flashed' = "danger"
    /\ UNCHANGED <<result_text, score, db>>

\* line 67: score = extract_score(result_text)
IndexScore ==
    /\ ipc = "score"
    /\ LET r == ExtractScore([kind |-> "list", parts |-> result_text]) IN
         IF r.res = "returned"
         THEN /\ score' = r.value
              /\ ipc' = "placeholder"
              /\ UNCHANGED flashed
         ELSE /\ ipc' = "failed"
              /\ flashed' = "danger"
              /\ UNCHANGED score
    /\ UNCHANGED <<result_text, db>>

IndexPlaceholderNotCommitted ==
    /\ ipc = "placeholder"
    /\ ipc' = "generate"
    /\ UNCHANGED <<result_text, score, db, flashed>>

\* lines 71-73: the placeholder row is added and committed
IndexPlaceholder ==
    /\ ipc = "placeholder"
    /\ db' = Append(db, [score |-> score, pdf_path |-> Generating])
    /\ ipc' = "generate"
    /\ UNCHANGED <<result_text, score, flashed>>

\* line 78: generate_pdf_report is called
IndexCallPdf ==
    /\ ipc = "generate"
    /\ ipc' = "in_pdf"
    /\ UNCHANGED <<result_text, score, db, flashed>>

\* The row this request works on: the one it added last.
SetPdfPath(v) ==
    IF db = <<>> THEN db ELSE [db EXCEPT ![Len(db)].pdf_path = v]

\* lines 78-84, 90-91: the call returned; the row gets the path, is committed
IndexPdfReturned ==
    /\ ipc = "in_pdf"
    /\ gstate = "Success"
    /\ db' = SetPdfPath(PathValue(StripStatic(gret.path)))
    /\ flashed' = "success"
    /\ ipc' = "done"
    /\ UNCHANGED <<result_text, score>>

\* lines 85-91: the call raised; the row gets the error marker, is committed
IndexPdfRaised ==
    /\ ipc = "in_pdf"
    /\ gstate = "Fatal"
    /\ db' = SetPdfPath(ErrorGeneratingPdf)
    /\ flashed' = "success"
    /\ ipc' = "done"
    /\ UNCHANGED <<result_text, score>>

InitIndex ==
    /\ ReasonIdle
    /\ ChatIdle
    /\ ScoreIdle
    /\ USE_LLM = TRUE
    /\ PdfReady
    /\ IndexIdle
    /\ RenderIdle
    /\ AnalyzeIdle
    /\ WriteIdle
    /\ RunsIdle

PdfStep ==
    \/ GenStart
    \/ UnicodeNoFont
    \/ UnicodeAddFont
    \/ UnicodeRender
    \/ UnicodeOutput
    \/ FallbackRender
    \/ FallbackOutput

NextIndex ==
    \/ IndexPost /\ UNCHANGED notIndex
    \/ IndexAnalyze /\ UNCHANGED notIndex
    \/ IndexAnalyzeRaises /\ UNCHANGED notIndex
    \/ IndexScore /\ UNCHANGED notIndex
    \/ IndexPlaceholder /\ UNCHANGED notIndex
    \/ IndexCallPdf /\ UNCHANGED notIndex
    \/ ipc = "in_pdf" /\ PdfStep /\ UNCHANGED notPdf
    \/ IndexPdfReturned /\ UNCHANGED notIndex
    \/ IndexPdfRaised /\ UNCHANGED notIndex

\* The store is taken to commit what it is given.
SpecIndex == InitIndex /\ [][NextIndex]_vars

(***************************************************************************)
(* The same handler over a store whose commit may raise (sqlite: database  *)
(* is locked, disk full).  A commit that raises leaves the rows as they    *)
(* were.                                                                   *)
(***************************************************************************)
\* line 73 raises: lines 93-98, no row was written
IndexPlaceholderCommitRaises ==
    /\ ipc = "placeholder"
    /\ ipc' = "failed"
    /\ flashed' = "danger"
    /\ UNCHANGED <<result_text, score, db>>

\* line 83 raises: the inner except clause (lines 85-87) marks the row, and its
\* commit goes through (then lines 90-91) or raises too (then lines 93-98)
IndexPathCommitRaises ==
    /\ ipc = "in_pdf"
    /\ gstate = "Success"
    /\ \/ /\ db' = SetPdfPath(ErrorGeneratingPdf)
          /\ flashed' = "success"
          /\ ipc' = "done"
       \/ /\ ipc' = "failed"
          /\ flashed' = "danger"
          /\ UNCHANGED db
    /\ UNCHANGED <<result_text, score>>

\* line 87 raises, inside the inner except clause: lines 93-98
IndexErrorCommitRaises ==
    /\ ipc = "in_pdf"
    /\ gstate = "Fatal"
    /\ ipc' = "failed"
    /\ flashed' = "danger"
    /\ UNCHANGED <<result_text, score, db>>

NextIndexFault ==
    \/ NextIndex
    \/ IndexPlaceholderCommitRaises /\ UNCHANGED notIndex
    \/ IndexPathCommitRaises /\ UNCHANGED notIndex
    \/ IndexErrorCommitRaises /\ UNCHANGED notIndex

SpecIndexFault == InitIndex /\ [][NextIndexFault]_vars

(***************************************************************************)
(* reporter.py: the header of each section, lines 72-86 of _render_pdf.    *)
(* The "type" of a Suggestion is missing, None, a string (its characters)  *)
(* or an int.                                                              *)
(***************************************************************************)
LowerAlpha ==
    <<"a", "b", "c", "d", "e", "f", "g", "h", "i", "j", "k", "l", "m",
      "n", "o", "p", "q", "r", "s", "t", "u", "v", "w", "x", "y", "z">>
UpperAlpha ==
    <<"A", "B", "C", "D", "E", "F", "G", "H", "I", "J", "K", "L", "M",
      "N", "O", "P", "Q", "R", "S", "T", "U", "V", "W", "X", "Y", "Z">>

IsUpper(c) == \E i \in 1..26 : UpperAlpha[i] = c
IsLower(c) == \E i \in 1..26 : LowerAlpha[i] = c
ToLower(c) == IF IsUpper(c) THEN LowerAlpha[CHOOSE i \in 1..26 : UpperAlpha[i] = c] ELSE c
ToUpper(c) == IF IsLower(c) THEN UpperAlpha[CHOOSE i \in 1..26 : LowerAlpha[i] = c] ELSE c

\* str.lower()
Lower(str) == [i \in 1..Len(str) |-> ToLower(str[i])]

\* str.title(): a letter that follows no letter is upper-cased, the others lower-cased
Title(str) ==
    [i \in 1..Len(str) |->
        IF i = 1 \/ ~(IsUpper(str[i - 1]) \/ IsLower(str[i - 1]))
        THEN ToUpper(str[i]) ELSE ToLower(str[i])]

MissingType == [kind |-> "missing", chars |-> <<>>, n |-> 0]
NoneType == [kind |-> "none", chars |-> <<>>, n |-> 0]
StrType(cs) == [kind |-> "str", chars |-> cs, n |-> 0]
IntType(k) == [kind |-> "int", chars |-> <<>>, n |-> k]

\* line 79: str(s.get("type", ""))
TypeStr(t) ==
    CASE t.kind = "missing" -> <<>>
      [] t.kind = "none" -> <<"N", "o", "n", "e">>
      [] t.kind = "str" -> t.chars
      [] t.kind = "int" -> FormatInt(t.n)

\* line 80: the truth value of s.get("type")
Truthy(t) == (t.kind = "str" /\ t.chars # <<>>) \/ (t.kind = "int" /\ t.n # 0)

\* lines 72-76 (each title without the pictograph it starts with)
section_titles ==
    { [key |-> <<"s", "t", "a", "t", "i", "c">>, title |-> "Static Analysis Findings"],
      [key |-> <<"r", "e", "v", "i", "e", "w">>, title |-> "AI Code Review & Recommendations"],
      [key |-> <<"s", "u", "m", "m", "a", "r", "y">>, title |-> "Final Summary & Health Score"] }

InTable(k) == \E e \in section_titles : e.key = k
TableTitle(k) == (CHOOSE e \in section_titles : e.key = k).title

\* lines 79-80.  The default argument of section_titles.get is evaluated before
\* the lookup: (s.get("type") or "Section").title() on an int has no .title.
SelectHeader(t) ==
    LET stype == Lower(TypeStr(t))
        base == IF Truthy(t) THEN t ELSE StrType(<<"S", "e", "c", "t", "i", "o", "n">>)
    IN  IF base.kind # "str"
        THEN [res |-> "raised", table |-> "", fallback |-> <<>>]
        ELSE IF InTable(stype)
        THEN [res |-> "ok", table |-> TableTitle(stype), fallback |-> <<>>]
        ELSE [res |-> "ok", table |-> "", fallback |-> Title(base.chars)]

TypeAlphabet == {"a", "B", " ", "1"}

TypeValues ==
    {MissingType, NoneType}
    \cup {IntType(k) : k \in {0, 5}}
    \cup {StrType(cs) : cs \in UNION {[1..k -> TypeAlphabet] : k \in 0..MaxTypeLen}}
    \cup {StrType(e.key) : e \in section_titles}
    \cup {StrType(<<"S", "t", "a", "t", "i", "c">>), StrType(<<"p", "y", "l", "i", "n", "t">>),
          StrType(<<"b", "a", "n", "d", "i", "t">>), StrType(<<"r", "a", "d", "o", "n">>)}

InitRender ==
    /\ ReasonIdle
    /\ ChatIdle
    /\ ScoreIdle
    /\ PdfIdle
    /\ IndexIdle
    /\ AnalyzeIdle
    /\ WriteIdle
    /\ RunsIdle
    /\ USE_LLM = TRUE
    /\ rsuggestions \in UNION {[1..k -> TypeValues] : k \in 0..MaxSuggestions}
    /\ rnext = 1
    /\ headers = <<>>
    /\ rstate = "rendering"

\* lines 78-128: one iteration of the loop; an exception ends _render_pdf
RenderSection ==
    /\ rstate = "rendering"
    /\ rnext <= Len(rsuggestions)
    /\ LET h == SelectHeader(rsuggestions[rnext]) IN
         IF h.res = "raised"
         THEN /\ rstate' = "raised"
              /\ UNCHANGED <<headers, rnext>>
         ELSE /\ headers' = Append(headers, h)
              /\ rnext' = rnext + 1
              /\ UNCHANGED rstate
    /\ UNCHANGED <<rsuggestions, notRender>>

\* lines 130-144: the loop is over, the rest of the document is written
RenderReturn ==
    /\ rstate = "rendering"
    /\ rnext > Len(rsuggestions)
    /\ rstate' = "returned"
    /\ UNCHANGED <<rsuggestions, rnext, headers, notRender>>

NextRender ==
    \/ RenderSection
    \/ RenderReturn

SpecRender == InitRender /\ [][NextRender]_vars

(***************************************************************************)
(* analyzer.py: run_pylint, run_bandit, run_radon_complexity as            *)
(* analyze_repository calls them (lines 49-59).  A JSON document is the    *)
(* number of its entries.                                                  *)
(***************************************************************************)
\* What one run_cmd call meets (lines 5-7): subprocess.run raises (the process
\* cannot be started, or text=True cannot decode what it printed), or the
\* process ends with a return code and a standard output that is empty,
\* is no JSON, or is a JSON document.
RunOutcomes ==
    {[raises |-> TRUE, code |-> 0, out |-> "none", items |-> 0]}
    \cup {[raises |-> FALSE, code |-> c, out |-> "empty", items |-> 0] : c \in {0, 1}}
    \cup {[raises |-> FALSE, code |-> c, out |-> "malformed", items |-> 0] : c \in {0, 1}}
    \cup {[raises |-> FALSE, code |-> c, out |-> "json", items |-> n] :
            c \in {0, 1}, n \in 0..MaxItems}

\* lines 23-27, 35-38, 44-47: json.loads(out or default) inside try/except: the
\* parsed document, the default for an empty output, or the value of the
\* except branch.  The defaults and the except values are all empty.
Loads(o) == IF o.out = "json" THEN o.items ELSE 0

InitAnalyze ==
    /\ ReasonIdle
    /\ ChatIdle
    /\ ScoreIdle
    /\ PdfIdle
    /\ IndexIdle
    /\ RenderIdle
    /\ WriteIdle
    /\ RunsIdle
    /\ USE_LLM = TRUE
    /\ apc = "pylint"
    /\ py_files \in 0..MaxPyFiles
    /\ runs = <<>>
    /\ pylint_findings = <<>>
    /\ bandit_findings = [results |-> 0]
    /\ radon_findings = [files |-> 0]

\* lines 18-28: one iteration of run_pylint's loop
RunPylintFile ==
    /\ apc = "pylint"
    /\ Len(pylint_findings) < py_files
    /\ \E o \in RunOutcomes :
         /\ runs' = Append(runs, [tool |-> "pylint", outcome |-> o])
         /\ IF o.raises
            THEN /\ apc' = "raised"
                 /\ UNCHANGED pylint_findings
            ELSE /\ pylint_findings' = Append(pylint_findings,
                        [file |-> Len(pylint_findings) + 1, issues |-> Loads(o)])
                 /\ UNCHANGED apc
    /\ UNCHANGED <<py_files, bandit_findings, radon_findings, notAnalyze>>

\* line 29: return results
RunPylintReturn ==
    /\ apc = "pylint"
    /\ Len(pylint_findings) = py_files
    /\ apc' = "bandit"
    /\ UNCHANGED <<py_files, runs, pylint_findings, bandit_findings, radon_findings,
                   notAnalyze>>

\* lines 31-38
RunBandit ==
    /\ apc = "bandit"
    /\ \E o \in RunOutcomes :
         /\ runs' = Append(runs, [tool |-> "bandit", outcome |-> o])
         /\ IF o.raises
            THEN /\ apc' = "raised"
                 /\ UNCHANGED bandit_findings
            ELSE /\ bandit_findings' = [results |-> Loads(o)]
                 /\ apc' = "radon"
    /\ UNCHANGED <<py_files, pylint_findings, radon_findings, notAnalyze>>

\* lines 40-47, 54-59
RunRadon ==
    /\ apc = "radon"
    /\ \E o \in RunOutcomes :
         /\ runs' = Append(runs, [tool |-> "radon", outcome |-> o])
         /\ IF o.raises
            THEN /\ apc' = "raised"
                 /\ UNCHANGED radon_findings
            ELSE /\ radon_findings' = [files |-> Loads(o)]
                 /\ apc' = "done"
    /\ UNCHANGED <<py_files, pylint_findings, bandit_findings, notAnalyze>>

NextAnalyze ==
    \/ RunPylintFile
    \/ RunPylintReturn
    \/ RunBandit
    \/ RunRadon

SpecAnalyze == InitAnalyze /\ [][NextAnalyze]_vars

(***************************************************************************)
(* reporter.py: sanitize, and the strings _render_pdf passes to the        *)
(* document.  A string is the sequence of the classes of its characters:   *)
(* "ascii" (\x00-\x7F), "latin1" (\x80-\xFF), "wide" (above \xFF).         *)
(***************************************************************************)
CharClasses == {"ascii", "latin1", "wide"}

\* line 30: re.sub(r"[^\x00-\xFF]", "", text or ""), whatever the mode
sanitize(text) == SelectSeq(text, LAMBDA c : c \in {"ascii", "latin1"})

\* The text fields a caller can pass: any characters, up to MaxChars of them.
Texts == UNION { [1..n -> CharClasses] : n \in 0..MaxChars }

\* A literal of the source made of ASCII characters only.
Ascii == <<"ascii">>

\* A string as pdf.cell / pdf.multi_cell receives it, through sanitize or not.
Sanitized(text) == [text |-> sanitize(text), via |-> "sanitize"]
Raw(text) == [text |-> text, via |-> "raw"]

\* line 58: "DevMate – AI Multi-Agent Code Review Report" (an en dash, U+2013)
title == <<"ascii", "wide", "ascii">>

\* lines 73-75: each table title starts with a pictograph
PictographTitle == <<"wide", "ascii">>

\* line 80: the table title, or the title-cased type / "Section" (never empty)
Headers == {PictographTitle} \cup (Texts \ {<<>>})

\* line 115: f"💡 Code Suggestion {idx}:"
CodeLabel(idx) == <<"wide", "ascii">>

\* line 134: "🖥️ Full CrewAI Execution Log"
title2 == <<"wide", "wide", "ascii">>

InitWrite ==
    /\ ReasonIdle
    /\ ChatIdle
    /\ ScoreIdle
    /\ PdfIdle
    /\ IndexIdle
    /\ RenderIdle
    /\ AnalyzeIdle
    /\ RunsIdle
    /\ USE_LLM = TRUE
    /\ unicode_mode \in BOOLEAN
    /\ wpc = "title"
    /\ sections_left \in 0..MaxSuggestions
    /\ codes_left = 0
    /\ code_idx = 0
    /\ wrote = <<>>

\* line 78: the loop takes the next Suggestion, or is over
AfterSection(left) == IF left > 0 THEN "section" ELSE "log"

\* lines 58-63
WriteTitle ==
    /\ wpc = "title"
    /\ wrote' = <<Sanitized(title)>>
    /\ wpc' = "meta"
    /\ UNCHANGED <<unicode_mode, sections_left, codes_left, code_idx, notWrite>>

\* lines 66-69: "Repository: {repo_url}\nGenerated on: {strftime}"
WriteMeta ==
    /\ wpc = "meta"
    /\ \E repo_url \in Texts :
         wrote' = <<Sanitized(Ascii \o repo_url \o Ascii)>>
    /\ wpc' = AfterSection(sections_left)
    /\ UNCHANGED <<unicode_mode, sections_left, codes_left, code_idx, notWrite>>

\* lines 79-97: the header, the "File: ... | Line: ..." line and the issue of a
\* Suggestion whose type is a string or missing
WriteSection ==
    /\ wpc = "section"
    /\ \E header \in Headers, file \in Texts, issue \in Texts :
         wrote' = << Sanitized(header),
                     Sanitized(Ascii \o file \o Ascii),
                     Sanitized(Ascii \o issue) >>
    /\ wpc' = "body"
    /\ UNCHANGED <<unicode_mode, sections_left, codes_left, code_idx, notWrite>>

\* lines 100-108: the body without its code blocks, written if not empty; the
\* code blocks are counted
WriteBody ==
    /\ wpc = "body"
    /\ \E clean_body \in Texts :
         wrote' = IF clean_body # <<>> THEN <<Sanitized(clean_body)>> ELSE <<>>
    /\ \E n \in 0..MaxCodes :
         /\ codes_left' = n
         /\ wpc' = IF n > 0 THEN "codes" ELSE "nocodes"
    /\ code_idx' = 1
    /\ UNCHANGED <<unicode_mode, sections_left, notWrite>>

\* lines 112-119 (and 126-128 after the last block): the label, then the block
WriteCode ==
    /\ wpc = "codes"
    /\ \E code \in Texts \ {<<>>} :
         wrote' = << Raw(CodeLabel(code_idx)), Sanitized(code) >>
    /\ code_idx' = code_idx + 1
    /\ codes_left' = codes_left - 1
    /\ IF codes_left = 1
       THEN /\ sections_left' = sections_left - 1
            /\ wpc' = AfterSection(sections_left - 1)
       ELSE UNCHANGED <<sections_left, wpc>>
    /\ UNCHANGED <<unicode_mode, notWrite>>

\* lines 120-128: "No code suggestions available."
WriteNoCodes ==
    /\ wpc = "nocodes"
    /\ wrote' = <<Sanitized(Ascii)>>
    /\ sections_left' = sections_left - 1
    /\ wpc' = AfterSection(sections_left - 1)
    /\ UNCHANGED <<unicode_mode, codes_left, code_idx, notWrite>>

\* lines 131-144: the log page, if full_output is not empty (the texts of the
\* bounds are shorter than the clamp and hold no escape sequence)
WriteLog ==
    /\ wpc = "log"
    /\ \E full_output \in Texts :
         wrote' = IF full_output # <<>>
                  THEN <<Sanitized(title2), Sanitized(full_output)>>
                  ELSE <<>>
    /\ wpc' = "returned"
    /\ UNCHANGED <<unicode_mode, sections_left, codes_left, code_idx, notWrite>>

NextWrite ==
    \/ WriteTitle
    \/ WriteMeta
    \/ WriteSection
    \/ WriteBody
    \/ WriteCode
    \/ WriteNoCodes
    \/ WriteLog

SpecWrite == InitWrite /\ [][NextWrite]_vars

(***************************************************************************)
(* reporter.py / utils.py: the names successive calls pick.  Each call     *)
(* reads the clock once; calls of sequential or overlapping requests may   *)
(* read it within the same second.                                         *)
(***************************************************************************)
WorkdirPrefix == <<"d", "e", "v", "m", "a", "t", "e", "_">>

\* utils.py line 4: os.path.join(tempfile.gettempdir(), f"devmate_{int(time.time())}")
WorkDir(t) == [dir |-> <<"tmp">>, name |-> WorkdirPrefix \o FormatInt(t)]

InitRuns ==
    /\ ReasonIdle
    /\ ChatIdle
    /\ ScoreIdle
    /\ PdfIdle
    /\ IndexIdle
    /\ RenderIdle
    /\ AnalyzeIdle
    /\ WriteIdle
    /\ USE_LLM = TRUE
    /\ clock \in 0..MaxTime
    /\ disk = {}
    /\ reports = <<>>
    /\ workdirs = <<>>

\* time.time() moves on by a second
ClockTick ==
    /\ clock < MaxTime
    /\ clock' = clock + 1
    /\ UNCHANGED <<disk, reports, workdirs, notRuns>>

\* reporter.py lines 147-193: a call that succeeds (in either mode) writes
\* out_path, replacing what the file held, and returns its relative path
GenerateReport ==
    /\ Len(reports) < MaxRuns
    /\ LET run == Len(reports) + 1
           out_path == OutPath(clock)
       IN  /\ disk' = { f \in disk : f.path # out_path }
                        \cup { [path |-> out_path, run |-> run] }
           /\ reports' = Append(reports, [run |-> run, path |-> RelativePath(out_path)])
    /\ UNCHANGED <<clock, workdirs, notRuns>>

\* utils.py lines 3-6: os.makedirs(d, exist_ok=True) accepts a directory that
\* is already there
MakeWorkdir ==
    /\ Len(workdirs) < MaxRuns
    /\ workdirs' = Append(workdirs, WorkDir(clock))
    /\ UNCHANGED <<clock, disk, reports, notRuns>>

NextRuns ==
    \/ ClockTick
    \/ GenerateReport
    \/ MakeWorkdir

SpecRuns == InitRuns /\ [][NextRuns]_vars

(***************************************************************************)
(* Claims on reason_over_findings and _chat.                               *)
(***************************************************************************)
TotalFindings == SumSeq(analysis.pylint) + analysis.bandit + SumSeq(analysis.radon)

\* C1: in one pass with budget N, _chat is called for at most N findings,
\* whatever the calls do.
C1_ChatCallsWithinBudget == chatCalls <= max_llm_calls

\* C2 as stated: the pass returns one Suggestion for every finding of its input,
\* so the output is as long as the input has findings.
C2_OnePerInputFinding ==
    rpc = "done" => Len(suggestions) = TotalFindings

\* The findings the loops of lines 69, 80, 91 and 92 keep, in the order of the pass.
RECURSIVE KeptOfFiles(_, _, _, _)
KeptOfFiles(type, counts, f, cap) ==
    IF f > Len(counts) THEN <<>>
    ELSE [i \in 1..Min(counts[f], cap) |-> [type |-> type, file |-> f, idx |-> i]]
         \o KeptOfFiles(type, counts, f + 1, cap)

KeptFindings ==
    KeptOfFiles("pylint", analysis.pylint, 1, max_llm_calls)
    \o [i \in 1..Min(analysis.bandit, 3) |-> [type |-> "bandit", file |-> 0, idx |-> i]]
    \o KeptOfFiles("radon", SubSeq(analysis.radon, 1, Min(Len(analysis.radon), 3)), 1, 2)

\* C2, amended: for a budget N >= 0 the pass returns exactly one Suggestion, in
\* order, for every finding within the caps (the first N issues of each pylint
\* entry, the first 3 bandit results, the first 2 items of each of the first 3
\* radon files), from the model or from the rule-based hint; the findings beyond
\* the caps get none.
C2_OnePerKeptFinding ==
    rpc = "done" =>
        /\ Len(suggestions) = Len(KeptFindings)
        /\ \A k \in 1..Len(suggestions) :
              /\ suggestions[k].type = KeptFindings[k].type
              /\ suggestions[k].file = KeptFindings[k].file
              /\ suggestions[k].idx = KeptFindings[k].idx
              /\ suggestions[k].src \in {"llm", "hint"}

\* A finished pass that kept some findings, dropped others, and took one
\* suggestion from the model and one from the hint after a failed call.
C2_Witness ==
    /\ rpc = "done"
    /\ Len(suggestions) < TotalFindings
    /\ \E k \in 1..Len(suggestions) : suggestions[k].src = "llm"
    /\ \E k \in 1..Len(suggestions) : suggestions[k].src = "hint"
    /\ lastChat.called
    /\ lastChat.res = "LLM_RATE_LIMIT"

LeadingRateLimited(outs, k) == \A j \in 1..k : IsRateLimited(outs[j])

\* C3: a _chat call makes at most 3 attempts and no delay is longer than 16; if
\* its first k attempts (k = 0, 1, 2) meet rate/quota errors and attempt k+1
\* succeeds, it returns the completion after exactly k delays: 2, then 4.
C3_BackoffSchedule ==
    chatRet.res \notin {"idle", "pending"} =>
        /\ chatRet.attempts <= 3
        /\ \A d \in 1..Len(chatRet.sleeps) : chatRet.sleeps[d] <= 16
        /\ \A k \in 0..2 :
              (USE_LLM /\ LeadingRateLimited(chatOuts, k) /\ chatOuts[k + 1] = "ok") =>
                  /\ chatRet.res = "completion"
                  /\ chatRet.attempts = k + 1
                  /\ chatRet.sleeps = SubSeq(<<2, 4>>, 1, k)

\* Two rate-limit errors, then success: the call returned after delays 2 and 4.
C3_Witness ==
    /\ chatOuts = <<"rate", "quota", "ok">>
    /\ chatRet.res = "completion"
    /\ chatRet.sleeps = <<2, 4>>

(***************************************************************************)
(* Claims on extract_score and the index handler.                          *)
(***************************************************************************)
\* A token with a trailing "/10" suffix removed.
StripSuffixSlash10(tok) ==
    IF Len(tok) >= 3 /\ SubSeq(tok, Len(tok) - 2, Len(tok)) = <<"/", "1", "0">>
    THEN SubSeq(tok, 1, Len(tok) - 3) ELSE tok

\* Token i qualifies: without its "/10" suffix it parses to a number in (0, 10].
Qualifies(tok) ==
    IsFloat(StripSuffixSlash10(tok)) /\ InRange(ParseFloat(StripSuffixSlash10(tok)))

\* C4: extract_score returns the value of the first token, left to right, that
\* parses to a number in (0, 10] once a trailing "/10" is removed; tokens whose
\* number is out of range are passed over ("rating 12/10 but also 6.0" gives
\* 6.0, "Overall score: 8.5/10 done" gives 8.5).
C4_FirstQualifyingToken ==
    (scoreOut.res = "returned" /\ scoreIn.kind = "str") =>
        LET toks == scoreIn.parts[1].toks IN
        \A i \in 1..Len(toks) :
            (Qualifies(toks[i]) /\ \A j \in 1..(i - 1) : ~Qualifies(toks[j])) =>
                scoreOut.value = Round2(ParseFloat(StripSuffixSlash10(toks[i])))

\* C5: every row the index handler has committed has a score in (0, 10]
\* (hundredths: 1..1000).
C5_PersistedScoreInRange ==
    \A i \in 1..Len(db) : 0 < db[i].score /\ db[i].score <= 1000

C7_FailurePathMarksRecord ==
    (ipc = "failed" /\ db # <<>>) => db[Len(db)].pdf_path = ErrorGeneratingPdf

(***************************************************************************)
(* Claims on generate_pdf_report.                                          *)
(***************************************************************************)
IsPrefixOf(a, b) == Len(a) <= Len(b) /\ SubSeq(b, 1, Len(a)) = a

GenAllowedTraces ==
    { <<"NoAttempt", "UnicodeAttempt", "Success">>,
      <<"NoAttempt", "UnicodeAttempt", "FallbackAttempt", "Success">>,
      <<"NoAttempt", "UnicodeAttempt", "FallbackAttempt", "Fatal">> }

\* path reads reports/devmate_report_<digits>.pdf
IsReportPath(p) ==
    /\ p.dir = <<"reports">>
    /\ Len(p.name) > Len(ReportPrefix) + Len(PdfSuffix)
    /\ SubSeq(p.name, 1, Len(ReportPrefix)) = ReportPrefix
    /\ SubSeq(p.name, Len(p.name) - Len(PdfSuffix) + 1, Len(p.name)) = PdfSuffix
    /\ \A i \in (Len(ReportPrefix) + 1)..(Len(p.name) - Len(PdfSuffix)) :
          p.name[i] \in Digits

\* C8: generate_pdf_report moves NoAttempt -> UnicodeAttempt -> (Success |
\* FallbackAttempt -> (Success | Fatal)); the Unicode attempt is first, a failure
\* in it starts one ASCII attempt on a fresh document, a failure of that one
\* reaches the caller, _render_pdf runs at most twice, and every Success returns
\* reports/devmate_report_<digits>.pdf.
C8_TwoTierGeneration ==
    /\ \E t \in GenAllowedTraces : IsPrefixOf(gtrace, t)
    /\ gtrace[Len(gtrace)] = gstate
    /\ Len(renders) <= 2
    /\ \A i \in 1..Len(renders) :
          /\ renders[i].mode = "unicode" => i = 1 /\ font_path # "None"
          /\ renders[i].mode = "ascii" =>
                /\ gstate \in {"FallbackAttempt", "Success", "Fatal"}
                /\ ~renders[i].doc.pages
                /\ \A j \in 1..(i - 1) :
                      renders[j].mode = "unicode" /\ renders[j].doc.id # renders[i].doc.id
    /\ gstate = "Fatal" <=> gret.res = "raised"
    /\ gstate = "Success" <=> gret.res = "returned"
    /\ gstate = "Success" => IsReportPath(gret.path) /\ OutPath(out_stamp) \in files
    /\ (gstate = "Success" /\ Len(gtrace) = 4) =>
          renders[Len(renders)].mode = "ascii"

\* The Unicode attempt rendered and failed on its write; the ASCII attempt
\* rendered again and returned a two-digit report name.
C8_Witness ==
    /\ gtrace = <<"NoAttempt", "UnicodeAttempt", "FallbackAttempt", "Success">>
    /\ Len(renders) = 2
    /\ out_stamp >= 10
    /\ gret.res = "returned"

(***************************************************************************)
(* Claims on _render_pdf's headers and on the analyzer passes.             *)
(***************************************************************************)
\* C9: header selection never fails: a type found in the lookup table gets the
\* table's header, any other type value (missing, empty, no string) gets a
\* title-cased fallback header, and nothing is raised.
C9_HeaderSelectionNeverFails ==
    /\ rstate # "raised"
    /\ \A i \in 1..Len(headers) :
          IF InTable(Lower(TypeStr(rsuggestions[i])))
          THEN headers[i].table = TableTitle(Lower(TypeStr(rsuggestions[i])))
          ELSE /\ headers[i].table = ""
               /\ headers[i].fallback # <<>>
               /\ headers[i].fallback = Title(headers[i].fallback)

\* A run of an analyzer failed: it could not be run, or printed no JSON.
RunFailed(o) == o.raises \/ o.out \in {"empty", "malformed"}

BanditRun == runs[py_files + 1].outcome
RadonRun == runs[py_files + 2].outcome

\* C10: a failed analyzer run yields the empty result for that analyzer (that
\* file, for pylint), the results of the other runs are what they printed, and
\* no exception leaves the three passes.
C10_AnalyzerFailureContained ==
    /\ apc # "raised"
    /\ \A i \in 1..Len(pylint_findings) :
          pylint_findings[i].issues =
              IF RunFailed(runs[i].outcome) THEN 0 ELSE runs[i].outcome.items
    /\ apc \in {"radon", "done"} =>
          bandit_findings.results = IF RunFailed(BanditRun) THEN 0 ELSE BanditRun.items
    /\ apc = "done" =>
          radon_findings.files = IF RunFailed(RadonRun) THEN 0 ELSE RadonRun.items

(***************************************************************************)
(* Claims on the budget counter and the fallback of reason_over_findings.  *)
(***************************************************************************)

\* C11: every finding on which _chat is called lowers the remaining budget by
\* exactly one, whether the call returns or raises (so that after k calls the
\* budget is N - k).
C11_DecrementOnEveryAttempt ==
    [][chatCalls' = chatCalls + 1 => llm_budget' = llm_budget - 1]_vars

\* The first attempt, if any, that meets something other than a rate/quota error.
FirstDecisive(faced) ==
    IF \E i \in 1..Len(faced) : faced[i] # "limited"
    THEN CHOOSE i \in 1..Len(faced) :
            faced[i] # "limited" /\ \A j \in 1..(i - 1) : faced[j] = "limited"
    ELSE 0

\* C12: a processed finding gets the rule-based hint exactly when the budget
\* is not positive at that finding, or its call met three rate/quota errors in
\* a row, or its call raised an error that is not rate/quota related (the
\* LLM_DISABLED error of line 30 included); such an error ends the call at the
\* attempt that met it, with no delay after it; otherwise the finding gets the
\* completion.
C12_HintExactlyOnFallback ==
    [][Len(suggestions') = Len(suggestions) + 1 =>
        LET s == suggestions'[Len(suggestions')]
            attempted == chatCalls' = chatCalls + 1
            c == lastChat'
            n == FirstDecisive(c.faced)
            exhausted == attempted /\ USE_LLM /\ n = 0
            disabled == attempted /\ ~USE_LLM
            nonRate == attempted /\ USE_LLM /\ n > 0 /\ c.faced[n] = "other"
        IN  /\ attempted <=> llm_budget > 0
            /\ s.src \in {"hint", "llm"}
            /\ s.src = "hint" <=> (llm_budget <= 0 \/ exhausted \/ nonRate \/ disabled)
            /\ exhausted => c.attempts = 3
            /\ nonRate => c.attempts = n /\ Len(c.sleeps) = n - 1
            /\ disabled => c.attempts = 0 /\ c.sleeps = <<>>
    ]_vars

\* A pass in which one finding got the completion and the latest call met a
\* rate/quota error, slept 2, met another error and fell back to the hint.
C12_Witness ==
    /\ lastChat.called
    /\ lastChat.faced = <<"limited", "other", "ok">>
    /\ lastChat.res = "error"
    /\ lastChat.sleeps = <<2>>
    /\ Len(suggestions) >= 2
    /\ suggestions[Len(suggestions)].src = "hint"
    /\ \E k \in 1..Len(suggestions) : suggestions[k].src = "llm"

(***************************************************************************)
(* Claims on the strings _render_pdf writes.                               *)
(***************************************************************************)

\* The character classes the active mode allows in the document.
AllowedClasses == IF unicode_mode THEN {"ascii", "latin1"} ELSE {"ascii"}

\* C13: every string _render_pdf writes went through sanitize and holds only
\* the characters of the active mode: ASCII in fallback mode (headings and
\* "Code Suggestion N" labels included), the single-byte range in Unicode mode.
C13_WrittenStringsSanitized ==
    \A k \in 1..Len(wrote) :
        /\ wrote[k].via = "sanitize"
        /\ \A i \in 1..Len(wrote[k].text) : wrote[k].text[i] \in AllowedClasses

(***************************************************************************)
(* Claims on the names of report files and checkout directories.           *)
(***************************************************************************)

\* C14: any two successful generate_pdf_report calls wrote distinct files, so
\* the file a record points to still holds that run's report; and any two
\* make_workdir calls returned distinct directories.
C14_DistinctOutputs ==
    /\ \A i, j \in 1..Len(reports) : i # j => reports[i].path # reports[j].path
    /\ \A i \in 1..Len(reports) :
          \E f \in disk : RelativePath(f.path) = reports[i].path /\ f.run = reports[i].run
    /\ \A i, j \in 1..Len(workdirs) : i # j => workdirs[i] # workdirs[j]

====
